---- MODULE Spec2Model ----
(***************************************************************************)
(* archlinux-ai-cli: the wiki text extractor, the retrieval pipeline       *)
(* (search -> fetch -> blob), the prompt composer, the history log and the *)
(* command loop of src/archlinux-ai-cli.py.                                *)
(*                                                                         *)
(* Python str values are TLA+ strings (Len, SubSeq and \o act on them).    *)
(* TLA+ strings are ASCII, so the emoji glyph that starts some of the      *)
(* program's messages is left out of the literal; nothing tests it.        *)
(* The HTML tokenizer of html.parser is library code: a document is the    *)
(* sequence of start-tag / end-tag / data events it hands to the handlers. *)
(***************************************************************************)
EXTENDS Integers, Sequences, FiniteSets, TLC

VARIABLES
    \* ---- WikiContentExtractor fed one event at a time (ExtractorSpec)
    parser,        \* the extractor object: text_content, in_content, current_tag
    dom,           \* the elements open in the document, outermost first
    origin,        \* per element of parser.text_content: where its text lay
    last_event,    \* the event handled last, with what was true when it was,
                   \* and whether a content id has been seen so far
    fed,           \* number of events fed so far
    \* ---- the command line program (Spec)
    pc,            \* the statement the process is at
    mode,          \* "query" | "interactive" | "history", chosen in main()
    history_file,  \* content of ~/.config/archlinux-ai-cli/history.json
    clock,         \* datetime.now()
    user_query,    \* the query being processed
    wiki_pages,    \* get_wiki_knowledge: the list search_arch_wiki returned
    wiki_knowledge,\* get_wiki_knowledge: the blob built so far
    page_idx,      \* get_wiki_knowledge: loop index over wiki_pages[:2]
    fetched,       \* titles fetch_wiki_content was called with, this query
    contents,      \* what each of those calls returned
    backend_calls, \* prompts handed to model.generate_content, this query
    response,      \* process_query's return value
    history,       \* save_to_history's local list
    out,           \* what the process printed last
    asked,         \* number of queries taken so far
    events         \* what happened to the query in flight (observation only)

extractor_vars == <<parser, dom, origin, last_event, fed>>
cli_vars == <<pc, mode, history_file, clock, user_query, wiki_pages,
              wiki_knowledge, page_idx, fetched, contents, backend_calls,
              response, history, out, asked, events>>
vars == <<parser, dom, origin, last_event, fed, pc, mode, history_file, clock,
          user_query, wiki_pages, wiki_knowledge, page_idx, fetched, contents,
          backend_calls, response, history, out, asked, events>>

(***************************************************************************)
(* Bounds of the model.                                                    *)
(***************************************************************************)
MaxEvents == 5      \* events fed to one extractor in ExtractorSpec
MaxResults == 3     \* titles a search response lists
MaxStored == 51     \* entries of the history log found at start-up
MaxQueries == 1     \* queries taken in one interactive session

(***************************************************************************)
(* Python string helpers.                                                  *)
(***************************************************************************)
\* Optional[T]: None, or Some(v) holding the value v
None == <<>>
Some(v) == <<v>>

Min(S) == CHOOSE m \in S : \A n \in S : m <= n
Max(S) == CHOOSE m \in S : \A n \in S : m >= n

Char(s, i) == SubSeq(s, i, i)

\* str.isspace for one character; also the class \s of re
IsSpace(c) == c \in {" ", "\t", "\n", "\r", "\f"}

\* str.lstrip(), str.rstrip(), str.strip()
RECURSIVE LStrip(_)
LStrip(s) ==
    IF Len(s) > 0 /\ IsSpace(Char(s, 1)) THEN LStrip(SubSeq(s, 2, Len(s))) ELSE s

RECURSIVE RStrip(_)
RStrip(s) ==
    IF Len(s) > 0 /\ IsSpace(Char(s, Len(s))) THEN RStrip(SubSeq(s, 1, Len(s) - 1))
    ELSE s

Strip(s) == RStrip(LStrip(s))

\* sub in s
Contains(s, sub) ==
    \E i \in 1..(Len(s) - Len(sub) + 1) : SubSeq(s, i, i + Len(sub) - 1) = sub

\* the concatenation of f[lo], ..., f[hi] (halving keeps the recursion shallow)
RECURSIVE Concat(_, _, _)
Concat(f, lo, hi) ==
    IF lo > hi THEN ""
    ELSE IF lo = hi THEN f[lo]
    ELSE LET mid == (lo + hi) \div 2
         IN  Concat(f, lo, mid) \o Concat(f, mid + 1, hi)

\* ' '.join(parts)
Join(parts) ==
    Concat([i \in 1..Len(parts) |-> IF i = 1 THEN parts[i] ELSE " " \o parts[i]],
           1, Len(parts))

\* s * n
RECURSIVE Repeat(_, _)
Repeat(s, n) ==
    IF n = 0 THEN ""
    ELSE LET half == Repeat(s, n \div 2)
         IN  IF n % 2 = 0 THEN half \o half ELSE half \o half \o s

\* re.sub(r'\s+', ' ', text): every maximal run of whitespace becomes one space
CollapseSpaces(text) ==
    Concat([i \in 1..Len(text) |->
              IF ~IsSpace(Char(text, i)) THEN Char(text, i)
              ELSE IF i > 1 /\ IsSpace(Char(text, i - 1)) THEN ""
              ELSE " "],
           1, Len(text))

EditMarker == "[edit]"

\* re.sub(r'\[edit\]', '', text): the marker cannot overlap itself, so a
\* character goes exactly when some occurrence of the marker covers it
RemoveEditMarker(text) ==
    Concat([i \in 1..Len(text) |->
              IF \E j \in (i - Len(EditMarker) + 1)..i :
                     /\ j >= 1
                     /\ j + Len(EditMarker) - 1 <= Len(text)
                     /\ SubSeq(text, j, j + Len(EditMarker) - 1) = EditMarker
              THEN "" ELSE Char(text, i)],
           1, Len(text))

(***************************************************************************)
(* class WikiContentExtractor(HTMLParser)                                  *)
(***************************************************************************)
ContentIds == {"mw-content-text", "bodyContent"}
skip_tags == {"script", "style", "nav", "footer", "header"}
MinFragmentLen == 3

\* an event of the tokenizer; attrs is the list of (name, value) pairs
StartTag(tag, attrs) == [type |-> "start", tag |-> tag, attrs |-> attrs]
EndTag(tag) == [type |-> "end", tag |-> tag]
Data(data) == [type |-> "data", data |-> data]

\* __init__
NewExtractor == [text_content |-> <<>>, in_content |-> FALSE, current_tag |-> None]

\* for attr, value in attrs: if attr == 'id' and value in [...]
HasContentId(attrs) ==
    \E i \in 1..Len(attrs) : attrs[i][1] = "id" /\ attrs[i][2] \in ContentIds

\* handle_starttag(tag, attrs)
handle_starttag(p, tag, attrs) ==
    [p EXCEPT !.current_tag = Some(tag),
              !.in_content = IF HasContentId(attrs) THEN TRUE ELSE @]

\* handle_endtag(tag)
handle_endtag(p, tag) ==
    IF tag = "div" /\ p.in_content THEN [p EXCEPT !.in_content = FALSE] ELSE p

\* whether handle_data keeps the fragment
Accepts(p, data) ==
    /\ p.in_content
    /\ ~(p.current_tag # None /\ p.current_tag[1] \in skip_tags)
    /\ Strip(data) # ""
    /\ Len(Strip(data)) > MinFragmentLen

\* handle_data(data)
handle_data(p, data) ==
    IF Accepts(p, data)
    THEN [p EXCEPT !.text_content = Append(@, Strip(data))]
    ELSE p

\* get_text()
get_text(p) == Join(p.text_content)

HandleEvent(p, e) ==
    CASE e.type = "start" -> handle_starttag(p, e.tag, e.attrs)
      [] e.type = "end"   -> handle_endtag(p, e.tag)
      [] e.type = "data"  -> handle_data(p, e.data)

\* parser.feed(html_content), the document given as its events
RECURSIVE FeedFrom(_, _, _)
FeedFrom(p, doc, i) ==
    IF i > Len(doc) THEN p ELSE FeedFrom(HandleEvent(p, doc[i]), doc, i + 1)

feed(doc) == FeedFrom(NewExtractor, doc, 1)

(***************************************************************************)
(* The extractor fed event by event, with the document's open elements      *)
(* kept beside it. The tokenizer reads the body of script and style as      *)
(* raw text, so no start tag is reported inside them.                       *)
(***************************************************************************)
Texts == {"AB", "CDEF", " Main page\n"}
RawTextTags == {"script", "style"}

\* the attributes a start tag may carry in the documents explored
StartTags ==
    {StartTag("div", <<>>),
     StartTag("div", <<<<"id", "mw-content-text">>>>),
     StartTag("div", <<<<"class", "toc">>, <<"id", "toc">>>>),
     StartTag("div", <<<<"class", "body">>, <<"id", "bodyContent">>>>),
     StartTag("a", <<<<"href", "/title/Main_page">>>>),
     StartTag("nav", <<>>),
     StartTag("script", <<>>)}

InsideContainer(d) == \E i \in 1..Len(d) : HasContentId(d[i].attrs)
\* inside a denylisted element that itself lies inside the container
InsideSkipTag(d) ==
    \E i \in 1..Len(d) : \E j \in (i + 1)..Len(d) :
        HasContentId(d[i].attrs) /\ d[j].tag \in skip_tags

NoEvent == [type |-> "none", accumulating |-> FALSE, in_container |-> FALSE,
            id_seen |-> FALSE]

ExtractorIdle ==
    /\ parser = NewExtractor
    /\ dom = <<>>
    /\ origin = <<>>
    /\ last_event = NoEvent
    /\ fed = 0

FeedStart ==
    \E e \in StartTags :
        /\ fed < MaxEvents
        /\ IF dom = <<>> THEN TRUE ELSE dom[Len(dom)].tag \notin RawTextTags
        /\ parser' = handle_starttag(parser, e.tag, e.attrs)
        /\ dom' = Append(dom, [tag |-> e.tag, attrs |-> e.attrs])
        /\ last_event' = [NoEvent EXCEPT !.type = "start",
                                         !.id_seen = last_event.id_seen
                                                     \/ HasContentId(e.attrs)]
        /\ fed' = fed + 1
        /\ UNCHANGED <<origin, cli_vars>>

FeedEnd ==
    /\ fed < MaxEvents
    /\ dom # <<>>
    /\ parser' = handle_endtag(parser, dom[Len(dom)].tag)
    /\ dom' = SubSeq(dom, 1, Len(dom) - 1)
    /\ last_event' = [NoEvent EXCEPT !.type = "end",
                                     !.id_seen = last_event.id_seen]
    /\ fed' = fed + 1
    /\ UNCHANGED <<origin, cli_vars>>

FeedData ==
    \E data \in Texts :
        /\ fed < MaxEvents
        /\ parser' = handle_data(parser, data)
        /\ origin' = IF Accepts(parser, data)
                     THEN Append(origin, [in_skip |-> InsideSkipTag(dom),
                                          in_container |-> InsideContainer(dom)])
                     ELSE origin
        /\ last_event' = [type |-> "data",
                          accumulating |-> parser.in_content,
                          in_container |-> InsideContainer(dom),
                          id_seen |-> last_event.id_seen]
        /\ fed' = fed + 1
        /\ UNCHANGED <<dom, cli_vars>>


(***************************************************************************)
(* The wiki and the search endpoint, as the program sees them.             *)
(***************************************************************************)
WikiRoot == "https://wiki.archlinux.org"
PhraseNoPages == "No relevant Arch Wiki pages found"
MaxContentLen == 4000
FetchLimit == 2
HistoryCap == 50
HistoryDefaultLimit == 10

\* titles the search endpoint ranks, and the URL it reports for a title
TitlePool == <<"Pacman", "Installation guide", "Xorg", PhraseNoPages,
               "System maintenance">>
UrlOf(title) == WikiRoot \o "/title/" \o title

\* the rendered HTML the content endpoint serves for a title
HtmlOf(title) ==
    CASE title = "Pacman" ->
           <<StartTag("div", <<<<"id", "mw-content-text">>>>),
             StartTag("h2", <<>>), Data("Usage"), Data("[edit]"), EndTag("h2"),
             StartTag("p", <<>>),
             Data("To upgrade the system run\n   pacman  -Syu"), EndTag("p"),
             EndTag("div")>>
      [] title = "System maintenance" ->
           <<StartTag("div", <<<<"class", "x">>, <<"id", "bodyContent">>>>),
             Data(Repeat("Check for errors. ", 250)),
             EndTag("div")>>
      [] title = "Installation guide" ->
           <<StartTag("div", <<<<"id", "mw-content-text">>>>),
             StartTag("div", <<<<"class", "toc">>, <<"id", "toc">>>>),
             Data("1 Pre-installation"), EndTag("div"),
             StartTag("p", <<>>), Data("Boot the live environment."), EndTag("p"),
             EndTag("div")>>
      [] title = "Xorg" ->
           <<StartTag("div", <<<<"id", "mw-content-text">>>>),
             StartTag("span", <<>>), Data(" [edit] "), EndTag("span"),
             EndTag("div")>>
      [] OTHER ->
           <<StartTag("div", <<<<"class", "mw-parser-output">>>>),
             StartTag("p", <<>>), Data("Nothing matched the query."),
             EndTag("p"), EndTag("div")>>

\* a ranking: the first n titles of the pool (again from its start, past its end)
Ranking(n) == [i \in 1..n |-> TitlePool[((i - 1) % Len(TitlePool)) + 1]]

\* the opensearch reply [query, titles, descriptions, urls]
WellFormed(query, titles) ==
    [kind |-> "json", msg |-> "",
     results |-> <<query, titles, [i \in 1..Len(titles) |-> ""],
                   [i \in 1..Len(titles) |-> UrlOf(titles[i])]>>]

\* what session.get(...).json() can amount to in search_arch_wiki
SearchResponses(query) ==
    {WellFormed(query, Ranking(n)) : n \in 0..MaxResults}
    \cup {WellFormed(query, <<"Xorg">>),
          WellFormed(query, <<PhraseNoPages>>),
          WellFormed(query, <<"System maintenance">>),
          [kind |-> "raise", msg |-> "HTTPSConnectionPool: Read timed out.",
           results |-> <<>>],
          [kind |-> "badjson", msg |-> "Expecting value: line 1 column 1 (char 0)",
           results |-> <<>>],
          [kind |-> "json", msg |-> "", results |-> <<>>],
          [kind |-> "json", msg |-> "", results |-> <<query>>],
          [kind |-> "json", msg |-> "", results |-> <<query, Ranking(2)>>],
          [kind |-> "json", msg |-> "",
           results |-> <<query, Ranking(2), <<"", "">>, <<UrlOf("Pacman")>>>>]}

\* what session.get(...).json() can amount to in fetch_wiki_content
FetchOutcomes(title) ==
    {[kind |-> "raise", msg |-> "HTTPSConnectionPool: Max retries exceeded",
      html |-> ""],
     [kind |-> "noparse", msg |-> "", html |-> ""],
     [kind |-> "html", msg |-> "", html |-> title]}

\* what model.generate_content(prompt) can amount to
BackendOutcomes ==
    {[kind |-> "text", msg |-> "",
      text |-> "According to the Pacman page, run pacman -Syu."],
     [kind |-> "raise", msg |-> "429 Resource has been exhausted", text |-> ""],
     [kind |-> "notext", msg |-> "response.text requires a valid Part",
      text |-> ""]}

\* a call's result: a returned value (and what it printed), or an exception
Return(v, printed) == [ok |-> TRUE, value |-> v, printed |-> printed]
Raise(msg) == [ok |-> FALSE, exc |-> msg]

(***************************************************************************)
(* ArchLinuxAI.search_arch_wiki                                            *)
(***************************************************************************)
\* zip(results[1], results[3]) as the list of {'title', 'url'} dicts
ZipPages(titles, urls) ==
    [i \in 1..Min({Len(titles), Len(urls)}) |->
        [title |-> titles[i], url |-> urls[i]]]

\* the body of the try block: the value, or the exception it ends with
SearchTry(resp) ==
    IF resp.kind # "json" THEN Raise(resp.msg)
    ELSE LET results == resp.results
         IN  IF Len(results) > 1 /\ results[2] # <<>>
             THEN IF Len(results) < 4 THEN Raise("list index out of range")
                  ELSE Return(ZipPages(results[2], results[4]), None)
             ELSE Return(<<>>, None)

\* the search without its try/except
NoTrySearch(resp) == SearchTry(resp)

search_arch_wiki(resp) ==
    LET r == SearchTry(resp)
    IN  IF r.ok THEN r
        ELSE Return(<<>>, Some("Wiki search error: " \o r.exc))

(***************************************************************************)
(* ArchLinuxAI.fetch_wiki_content                                          *)
(***************************************************************************)
TruncationMarker == "... [content truncated, see full page at wiki]"

\* lines 110-115: the clean-up of the extracted text
CleanUp(text) ==
    LET t == RemoveEditMarker(CollapseSpaces(text))
    IN  IF Len(t) > MaxContentLen
        THEN SubSeq(t, 1, MaxContentLen) \o TruncationMarker
        ELSE t

FetchTry(o) ==
    CASE o.kind = "raise"   -> Raise(o.msg)
      [] o.kind = "noparse" -> Return(None, None)
      [] o.kind = "html"    ->
           Return(Some(CleanUp(get_text(feed(HtmlOf(o.html))))), None)

\* the fetch without its try/except
NoTryFetch(page_title, o) == FetchTry(o)

fetch_wiki_content(page_title, o) ==
    LET r == FetchTry(o)
    IN  IF r.ok THEN r
        ELSE Return(None, Some("Could not fetch wiki page '" \o page_title
                               \o "': " \o r.exc))


(***************************************************************************)
(* ArchLinuxAI.get_wiki_knowledge: the pieces of the blob                  *)
(***************************************************************************)
NoPagesFound ==
    PhraseNoPages \o ". Please search the wiki manually at " \o WikiRoot

BlobHeader == "=== ARCH WIKI CONTENT ===\n\n"

\* if content: (None and '' are both false)
Truthy(opt) == opt # None /\ opt[1] # ""

\* lines 136-143: the block of one of the pages read
PageBlock(page, content) ==
    IF Truthy(content)
    THEN "### " \o page.title \o "\n"
         \o "URL: " \o page.url \o "\n"
         \o "Content:\n" \o content[1] \o "\n\n"
    ELSE "### " \o page.title \o "\n"
         \o "URL: " \o page.url \o "\n"
         \o "(Content could not be retrieved - refer to URL)\n\n"

\* s[:n] and, for n >= 0, s[-n:] (s[-0:] is all of s)
PyFirst(s, n) == SubSeq(s, 1, Min({n, Len(s)}))
PyLast(s, n) == IF n = 0 THEN s ELSE SubSeq(s, Max({1, Len(s) - n + 1}), Len(s))
PyFrom(s, n) == SubSeq(s, n + 1, Len(s))

\* lines 146-149: the links of the pages not read
AdditionalPages(pages) ==
    IF Len(pages) > FetchLimit
    THEN LET rest == PyFrom(pages, FetchLimit)
         IN  "Additional relevant pages:\n"
             \o Concat([i \in 1..Len(rest) |->
                          "- " \o rest[i].title \o ": " \o rest[i].url \o "\n"],
                       1, Len(rest))
    ELSE ""

\* the loop of line 132 without its slice
ReadEveryPage(pages) == pages

\* the pages the loop of line 132 visits
PagesToRead(pages) == PyFirst(pages, FetchLimit)

(***************************************************************************)
(* ArchLinuxAI.get_ai_response                                             *)
(***************************************************************************)
system_prompt ==
    "You are an expert Arch Linux assistant that ONLY uses information from the official Arch Wiki.\n"
    \o "\nCRITICAL RULES:\n"
    \o "1. Base ALL answers on the Arch Wiki content provided to you\n"
    \o "2. If the Wiki content doesn't contain the answer, say \"The Arch Wiki content provided doesn't cover this. Please check: https://wiki.archlinux.org\"\n"
    \o "3. When recommending commands, ONLY use commands mentioned in the Wiki content\n"
    \o "4. Always cite which Wiki page the information comes from\n"
    \o "5. Warn about dangerous operations (rm -rf, dd, filesystem modifications, etc.)\n"
    \o "6. If asked about something not in the Wiki content, direct users to search the Wiki manually\n"
    \o "\nRESPONSE FORMAT:\n"
    \o "- Start with a direct answer based on Wiki content\n"
    \o "- Include relevant commands from the Wiki with explanations\n"
    \o "- Cite the Wiki page(s) you're referencing\n"
    \o "- Add safety warnings if needed\n"
    \o "- Keep responses clear and concise\n"
    \o "\nRemember: You are a WIKI-BASED assistant. Never make up information or use knowledge outside the provided Wiki content."

full_prompt(user_query_, wiki_content) ==
    system_prompt \o "\n\n" \o wiki_content \o "\n\nUser Question: " \o user_query_
    \o "\n\nProvide your answer based ONLY on the Arch Wiki content above. If the Wiki content doesn't cover this question adequately, be honest and direct the user to search the Wiki manually."

\* a result that also lists the requests made of the backend
Answer(r, requests) ==
    IF r.ok THEN [ok |-> TRUE, value |-> r.value, requests |-> requests]
    ELSE [ok |-> FALSE, exc |-> r.exc, requests |-> requests]

\* the try block: generate_content(full_prompt), then response.text
GenerateTry(o) == IF o.kind = "text" THEN Return(o.text, None) ELSE Raise(o.msg)

\* the backend call without its try/except
NoTryGenerate(user_query_, wiki_content, o) ==
    Answer(GenerateTry(o), <<full_prompt(user_query_, wiki_content)>>)

get_ai_response(user_query_, wiki_content, o) ==
    LET r == GenerateTry(o)
        prompt == full_prompt(user_query_, wiki_content)
    IN  IF r.ok THEN Answer(r, <<prompt>>)
        ELSE Answer(Return("Error getting AI response: " \o r.exc
                           \o "\n\nPlease check the Arch Wiki directly at: "
                           \o WikiRoot, None),
                    <<prompt>>)

\* process_query line 193: the test that skips the backend
SkipsBackend(wiki_content) == Contains(wiki_content, PhraseNoPages)


(***************************************************************************)
(* The history file and ArchLinuxAI.save_to_history / show_history         *)
(***************************************************************************)
\* the file's content: missing; a JSON list of entries; valid JSON that is
\* no list (an object); or text json.load rejects ('' after open(.., 'w'))
Absent == [kind |-> "absent", items |-> <<>>, text |-> ""]
ListFile(items) == [kind |-> "list", items |-> items, text |-> ""]
ObjectFile == [kind |-> "object", items |-> <<>>, text |-> "{}"]
Garbage(text) == [kind |-> "garbage", items |-> <<>>, text |-> text]

\* a Python value held by the local `history`: a list, or a dict
PyList(items) == [type |-> "list", items |-> items]
PyDict == [type |-> "dict", items |-> <<>>]

HistoryEntry(query, resp, timestamp) ==
    [query |-> query, response |-> resp, timestamp |-> timestamp]

\* lines 202-208: history = [], replaced by json.load(f) when that succeeds
LoadHistory(file) ==
    CASE file.kind = "absent"  -> PyList(<<>>)
      [] file.kind = "list"    -> PyList(file.items)
      [] file.kind = "object"  -> PyDict
      [] file.kind = "garbage" -> PyList(<<>>)

\* the cap taken from the wrong end: history[:50]
AppendDropNewest(h, entry) ==
    IF h.type = "list"
    THEN Return(PyList(PyFirst(Append(h.items, entry), HistoryCap)), None)
    ELSE Raise("'dict' object has no attribute 'append'")

\* lines 211-218: history.append({...}); history = history[-50:]
AppendAndCap(h, entry) ==
    IF h.type = "list"
    THEN Return(PyList(PyLast(Append(h.items, entry), HistoryCap)), None)
    ELSE Raise("'dict' object has no attribute 'append'")

Rule(c) == Repeat(c, 60)

\* the five print calls of lines 237-241 for one entry
ShowEntry(entry) ==
    "\n" \o Rule("=") \o "\n"
    \o "Query: " \o entry.query \o "\n"
    \o "Time: " \o ToString(entry.timestamp) \o "\n"
    \o Rule("-") \o "\n"
    \o entry.response \o "\n"

show_history(file, limit) ==
    CASE file.kind = "absent"  -> Return(None, Some("No history found.\n"))
      [] file.kind = "garbage" -> Return(None, Some("Error reading history.\n"))
      [] file.kind = "object"  -> Raise("unhashable type: 'slice'")
      [] file.kind = "list"    ->
           LET shown == PyLast(file.items, limit)
           IN  Return(None,
                      Some(Concat([i \in 1..Len(shown) |-> ShowEntry(shown[i])],
                                  1, Len(shown))))

(***************************************************************************)
(* The process: main(), interactive_mode(), process_query(),               *)
(* save_to_history(), one statement (or one blocking call) per step.       *)
(***************************************************************************)
Queries == {"how do I update my system?"}
Inputs == Queries \cup {"EXIT", " q ", "history", "  "}

\* str.lower()
LowerChar(c) ==
    LET up == "ABCDEFGHIJKLMNOPQRSTUVWXYZ"
        lo == "abcdefghijklmnopqrstuvwxyz"
        at == {i \in 1..Len(up) : Char(up, i) = c}
    IN  IF at = {} THEN c ELSE Char(lo, CHOOSE i \in at : TRUE)

Lower(s) == Concat([i \in 1..Len(s) |-> LowerChar(Char(s, i))], 1, Len(s))

Goodbye ==
    "\nGoodbye! Stay rolling!\n"
    \o "Remember to check https://wiki.archlinux.org for more info!\n"

\* the observation of the query in flight
NoEvents(file) ==
    [search |-> None, fetch |-> <<>>, backend |-> None, file_before |-> file,
     interrupted |-> FALSE, swallowed |-> FALSE, raised |-> None,
     writes |-> 0, entry |-> None, retrieved |-> FALSE, returned |-> FALSE]

\* the stored logs the program may find: none, one of 0..MaxStored entries
\* (a file the program wrote holds at most HistoryCap; edited or older files
\* may hold more), a JSON object, or unparseable text
OldEntry(i) == HistoryEntry("old query " \o ToString(i), "old answer", i)
StoredLog(n) == ListFile([i \in 1..n |-> OldEntry(i)])
StoredLengths == {0, 1, HistoryCap - 1, HistoryCap, MaxStored}
StoredFiles ==
    {StoredLog(n) : n \in StoredLengths}
    \cup {Absent, ObjectFile, Garbage("{\"query\": ")}
CliStoredFiles ==
    {StoredLog(HistoryCap), Absent, ObjectFile, Garbage("{\"query\": ")}

IdleQuery ==
    /\ user_query = ""
    /\ wiki_pages = <<>>
    /\ wiki_knowledge = ""
    /\ page_idx = 0
    /\ fetched = <<>>
    /\ contents = <<>>
    /\ backend_calls = <<>>
    /\ response = ""
    /\ history = PyList(<<>>)

CliInit ==
    /\ pc = "main"
    /\ mode = "none"
    /\ history_file \in CliStoredFiles
    /\ clock = MaxStored + 1
    /\ IdleQuery
    /\ out = ""
    /\ asked = 0
    /\ events = NoEvents(history_file)

\* a new query: the locals of the previous one are gone
StartQuery(query) ==
    /\ user_query' = query
    /\ wiki_pages' = <<>>
    /\ wiki_knowledge' = ""
    /\ page_idx' = 0
    /\ fetched' = <<>>
    /\ contents' = <<>>
    /\ backend_calls' = <<>>
    /\ response' = ""
    /\ history' = PyList(<<>>)
    /\ events' = NoEvents(history_file)
    /\ asked' = asked + 1
    /\ pc' = "search"

query_vars == <<user_query, wiki_pages, wiki_knowledge, page_idx, fetched,
                contents, backend_calls, response, history>>

\* an exception leaves the function that raised it: interactive_mode's
\* `except Exception` prints it and loops; elsewhere the process dies of it
Propagate(seen, where, msg) ==
    /\ events' = [seen EXCEPT !.raised = Some(where)]
    /\ out' = "Error: " \o msg \o "\n"
    /\ pc' = CASE mode = "interactive" -> "input"
               [] mode = "driver"      -> "call"
               [] OTHER                -> "crashed"

\* where control goes when the handling of a query is over
AfterQuery ==
    CASE mode = "interactive" -> "input"
      [] mode = "driver"      -> "call"
      [] OTHER                -> "done"

\* lines 308-313: --api-key, else the environment, else the config file
ResolveKey(flag, env, file) ==
    LET first == IF Truthy(flag) THEN flag ELSE env
    IN  IF Truthy(first) THEN first
        ELSE IF file # None THEN Some(Strip(file[1])) ELSE first

KeyChoices == {None, Some("AIza-key")}
Args ==
    [api_key : KeyChoices, env : KeyChoices, key_file : {None, Some(" AIza-key\n")},
     history : {None, Some(0), Some(2)}, interactive : BOOLEAN,
     query : {None, Some("")} \cup {Some(q) : q \in Queries}]

\* main()
Main ==
    \E a \in Args :
        /\ pc = "main"
        /\ UNCHANGED <<history_file, clock, extractor_vars>>
        /\ IF ~Truthy(ResolveKey(a.api_key, a.env, a.key_file))
           THEN /\ pc' = "exit1"
                /\ out' = "Error: No API key provided!\n"
                /\ UNCHANGED <<mode, query_vars, asked, events>>
           ELSE IF a.history # None
           THEN LET r == show_history(history_file, a.history[1])
                IN  /\ mode' = "history"
                    /\ pc' = IF r.ok THEN "done" ELSE "crashed"
                    /\ out' = IF r.ok THEN r.printed[1] ELSE "Error: " \o r.exc \o "\n"
                    /\ UNCHANGED <<query_vars, asked, events>>
           ELSE IF a.interactive
           THEN /\ mode' = "interactive"
                /\ pc' = "input"
                /\ out' = "Arch Linux AI CLI - Interactive Mode\n"
                /\ UNCHANGED <<query_vars, asked, events>>
           ELSE IF Truthy(a.query)
           THEN /\ mode' = "query"
                /\ StartQuery(a.query[1])
                /\ out' = "\nSearching Arch Wiki...\n"
           ELSE /\ mode' = "help"
                /\ pc' = "done"
                /\ out' = "usage: archlinux-ai-cli [-h] [-q QUERY] [-i] [--history N] [--api-key API_KEY]\n"
                /\ UNCHANGED <<query_vars, asked, events>>

\* interactive_mode lines 252-266: one line read from the operator
ReadInput ==
    \E line \in Inputs :
        LET user_input == Strip(line)
        IN  /\ pc = "input"
            /\ UNCHANGED <<mode, history_file, clock, extractor_vars>>
            /\ IF Lower(user_input) \in {"exit", "quit", "q"}
               THEN /\ pc' = "done"
                    /\ out' = Goodbye
                    /\ UNCHANGED <<query_vars, asked, events>>
               ELSE IF Lower(user_input) = "history"
               THEN LET r == show_history(history_file, HistoryDefaultLimit)
                    IN  /\ pc' = "input"
                        /\ out' = IF r.ok THEN r.printed[1]
                                  ELSE "Error: " \o r.exc \o "\n"
                        /\ UNCHANGED <<query_vars, asked, events>>
               ELSE IF user_input = ""
               THEN UNCHANGED <<pc, out, query_vars, asked, events>>
               ELSE /\ asked < MaxQueries
                    /\ StartQuery(user_input)
                    /\ out' = "\nSearching Arch Wiki...\n"


\* get_wiki_knowledge lines 125-130: the search, and the sentinel or the header
Search ==
    \E resp \in SearchResponses(user_query) :
        LET r == search_arch_wiki(resp)
            seen == [events EXCEPT !.search = Some(resp),
                                   !.retrieved = r.ok /\ r.value = <<>>]
        IN  /\ pc = "search"
            /\ UNCHANGED <<mode, history_file, clock, user_query, page_idx, fetched,
                           contents, backend_calls, response, history, asked,
                           extractor_vars>>
            /\ IF ~r.ok
               THEN /\ Propagate(seen, "search_arch_wiki", r.exc)
                    /\ UNCHANGED <<wiki_pages, wiki_knowledge>>
               ELSE /\ wiki_pages' = r.value
                    /\ events' = seen
                    /\ out' = IF r.printed # None THEN r.printed[1] ELSE out
                    /\ IF r.value = <<>>
                       THEN /\ wiki_knowledge' = NoPagesFound
                            /\ pc' = "check"
                       ELSE /\ wiki_knowledge' = BlobHeader
                            /\ pc' = "fetch"

\* get_wiki_knowledge lines 132-151: one turn of the loop over wiki_pages[:2];
\* the last turn is followed by the links of the other pages and the return
Fetch ==
    /\ pc = "fetch"
    /\ LET page == PagesToRead(wiki_pages)[page_idx + 1]
       IN  \E o \in FetchOutcomes(page.title) :
            LET r == fetch_wiki_content(page.title, o)
                last == page_idx + 1 = Len(PagesToRead(wiki_pages))
                seen == [events EXCEPT !.fetch = Append(@, o),
                                       !.retrieved = r.ok /\ last]
            IN  /\ UNCHANGED <<mode, history_file, clock, user_query, wiki_pages,
                               backend_calls, response, history, asked,
                               extractor_vars>>
                /\ fetched' = Append(fetched, page.title)
                /\ IF ~r.ok
                   THEN /\ Propagate(seen, "fetch_wiki_content", r.exc)
                        /\ UNCHANGED <<wiki_knowledge, contents, page_idx>>
                   ELSE /\ events' = seen
                        /\ out' = IF r.printed # None THEN r.printed[1]
                                  ELSE "Reading Wiki: " \o page.title \o "...\n"
                        /\ contents' = Append(contents, r.value)
                        /\ page_idx' = page_idx + 1
                        /\ wiki_knowledge' =
                               wiki_knowledge \o PageBlock(page, r.value)
                               \o (IF last THEN AdditionalPages(wiki_pages) ELSE "")
                        /\ pc' = IF last THEN "check" ELSE "fetch"

\* process_query lines 193-194
CheckSentinel ==
    /\ pc = "check"
    /\ UNCHANGED <<mode, history_file, clock, user_query, wiki_pages, wiki_knowledge,
                   page_idx, fetched, contents, backend_calls, history, asked,
                   extractor_vars>>
    /\ IF SkipsBackend(wiki_knowledge)
       THEN /\ response' = wiki_knowledge
            /\ events' = [events EXCEPT !.returned = TRUE]
            /\ pc' = "print"
            /\ UNCHANGED out
       ELSE /\ pc' = "generate"
            /\ out' = "Generating Wiki-based response...\n\n"
            /\ UNCHANGED <<response, events>>

\* process_query lines 197-198: get_ai_response
Generate ==
    \E o \in BackendOutcomes :
        LET r == get_ai_response(user_query, wiki_knowledge, o)
            seen == [events EXCEPT !.backend = Some(o)]
        IN  /\ pc = "generate"
            /\ UNCHANGED <<mode, history_file, clock, user_query, wiki_pages,
                           wiki_knowledge, page_idx, fetched, contents, history,
                           asked, extractor_vars>>
            /\ backend_calls' = backend_calls \o r.requests
            /\ IF ~r.ok
               THEN /\ Propagate(seen, "get_ai_response", r.exc)
                    /\ UNCHANGED response
               ELSE /\ response' = r.value
                    /\ events' = [seen EXCEPT !.returned = TRUE]
                    /\ pc' = "print"
                    /\ UNCHANGED out

\* the response printed: lines 268-270, or line 332
PrintResponse ==
    /\ pc = "print"
    /\ out' = IF mode = "interactive"
              THEN "\n" \o Rule("=") \o "\n" \o response \o "\n" \o Rule("=") \o "\n"
              ELSE "\n" \o response \o "\n\n"
    /\ pc' = "save_load"
    /\ UNCHANGED <<mode, history_file, clock, query_vars, asked, events,
                   extractor_vars>>

\* save_to_history lines 202-208
SaveLoad ==
    /\ pc = "save_load"
    /\ history' = LoadHistory(history_file)
    /\ pc' = "save_append"
    /\ UNCHANGED <<mode, history_file, clock, user_query, wiki_pages, wiki_knowledge,
                   page_idx, fetched, contents, backend_calls, response, out, asked,
                   events, extractor_vars>>

\* the same lines when the operator's interrupt arrives inside the try block:
\* the bare `except:` of line 207 takes the KeyboardInterrupt too
SaveLoadInterrupted ==
    /\ pc = "save_load"
    /\ history_file.kind # "absent"
    /\ history' = PyList(<<>>)
    /\ events' = [events EXCEPT !.swallowed = TRUE]
    /\ pc' = "save_append"
    /\ UNCHANGED <<mode, history_file, clock, user_query, wiki_pages, wiki_knowledge,
                   page_idx, fetched, contents, backend_calls, response, out, asked,
                   extractor_vars>>

\* save_to_history lines 210-218
SaveAppend ==
    LET entry == HistoryEntry(user_query, response, clock)
        r == AppendAndCap(history, entry)
    IN  /\ pc = "save_append"
        /\ clock' = clock + 1
        /\ UNCHANGED <<mode, history_file, user_query, wiki_pages, wiki_knowledge,
                       page_idx, fetched, contents, backend_calls, response, asked,
                       extractor_vars>>
        /\ IF ~r.ok
           THEN /\ Propagate(events, "save_to_history", r.exc)
                /\ UNCHANGED history
           ELSE /\ history' = r.value
                /\ events' = [events EXCEPT !.entry = Some(entry)]
                /\ pc' = "save_open"
                /\ UNCHANGED out

\* save_to_history line 220: open(..., 'w') empties (or creates) the file
SaveOpen ==
    /\ pc = "save_open"
    /\ history_file' = Garbage("")
    /\ pc' = "save_dump"
    /\ UNCHANGED <<mode, clock, query_vars, out, asked, events, extractor_vars>>

\* save_to_history line 221: json.dump, and the file closed
SaveDump ==
    /\ pc = "save_dump"
    /\ history_file' = ListFile(history.items)
    /\ events' = [events EXCEPT !.writes = @ + 1]
    /\ pc' = AfterQuery
    /\ UNCHANGED <<mode, clock, query_vars, out, asked, extractor_vars>>

\* the statements a KeyboardInterrupt can arrive at, outside the bare except
InFlight == {"search", "fetch", "check", "generate", "print",
             "save_load", "save_append", "save_open", "save_dump"}

\* the operator's interrupt: interactive_mode says goodbye and leaves its
\* loop (lines 274-276); in main() nothing catches it
Interrupt ==
    /\ pc \in InFlight \cup {"input"}
    /\ mode \in {"interactive", "query"}
    /\ pc' = IF mode = "interactive" THEN "done" ELSE "killed"
    /\ out' = IF mode = "interactive" THEN "\n" \o Goodbye ELSE "KeyboardInterrupt\n"
    /\ events' = IF pc \in InFlight THEN [events EXCEPT !.interrupted = TRUE]
                 ELSE events
    /\ UNCHANGED <<mode, history_file, clock, query_vars, asked, extractor_vars>>

(***************************************************************************)
(* Specifications.                                                         *)
(***************************************************************************)
\* the command line program
Init == CliInit /\ ExtractorIdle

Next ==
    \/ Main
    \/ ReadInput
    \/ Search
    \/ Fetch
    \/ CheckSentinel
    \/ Generate
    \/ PrintResponse
    \/ SaveLoad
    \/ SaveLoadInterrupted
    \/ SaveAppend
    \/ SaveOpen
    \/ SaveDump
    \/ Interrupt

Spec == Init /\ [][Next]_vars

\* WikiContentExtractor alone, fed any well-nested document
ExtractorInit ==
    /\ ExtractorIdle
    /\ pc = "feed"
    /\ mode = "none"
    /\ history_file = Absent
    /\ clock = 0
    /\ IdleQuery
    /\ out = ""
    /\ asked = 0
    /\ events = NoEvents(Absent)

ExtractorNext ==
    \/ FeedStart
    \/ FeedEnd
    \/ FeedData

ExtractorSpec == ExtractorInit /\ [][ExtractorNext]_vars

\* save_to_history alone, called again and again by a driver
DriverQueries == {"how do I update my system?", "install xorg"}
DriverResponses == {"Run pacman -Syu.", NoPagesFound}
MaxSaves == 3

DriverInit ==
    /\ ExtractorIdle
    /\ pc = "call"
    /\ mode = "driver"
    /\ history_file \in StoredFiles
    /\ clock = MaxStored + 1
    /\ IdleQuery
    /\ out = ""
    /\ asked = 0
    /\ events = NoEvents(history_file)

\* save_to_history(query, response) is called
DriverCall ==
    \E q \in DriverQueries, r \in DriverResponses :
        /\ pc = "call"
        /\ asked < MaxSaves
        /\ asked' = asked + 1
        /\ user_query' = q
        /\ response' = r
        /\ history' = PyList(<<>>)
        /\ events' = [NoEvents(history_file) EXCEPT !.returned = TRUE]
        /\ pc' = "save_load"
        /\ UNCHANGED <<mode, history_file, clock, wiki_pages, wiki_knowledge,
                       page_idx, fetched, contents, backend_calls, out,
                       extractor_vars>>

HistoryNext ==
    \/ DriverCall
    \/ SaveLoad
    \/ SaveLoadInterrupted
    \/ SaveAppend
    \/ SaveOpen
    \/ SaveDump

HistorySpec == DriverInit /\ [][HistoryNext]_vars


(***************************************************************************)
(* Properties.                                                             *)
(***************************************************************************)

\* C1: once a save_to_history call has written the log, the log holds at most
\* 50 entries, its last element is the entry just appended, and (for a call
\* that read a stored list, of any length, or found no file) it is the tail of
\* "the stored entries, then the new one" in append order: the oldest entries
\* are the ones dropped. A call whose read was cut by the operator's interrupt
\* is outside the "equals the most recent entries" part.
C1_HistoryBounded ==
    events.writes > 0 =>
        LET before == events.file_before.items
            all == before \o <<events.entry[1]>>
            n == Len(all)
            k == Len(history_file.items)
        IN  /\ history_file.kind = "list"
            /\ k <= 50
            /\ k >= 1
            /\ history_file.items[k] = events.entry[1]
            /\ events.entry[1].query = user_query
            /\ events.entry[1].response = response
            /\ (~events.swallowed /\ events.file_before.kind \in {"list", "absent"}) =>
                   /\ k = IF n < 50 THEN n ELSE 50
                   /\ \A i \in 1..k : history_file.items[i] = all[n - k + i]

\* C1 witness: a second or later call found a stored list of exactly 50
\* entries and wrote 50, the former first entry gone
C1_Witness ==
    /\ asked >= 2
    /\ events.writes = 1
    /\ ~events.swallowed
    /\ events.file_before.kind = "list"
    /\ Len(events.file_before.items) = 50
    /\ Len(history_file.items) = 50
    /\ history_file.items[1] = events.file_before.items[2]
    /\ history_file.items[1] # events.file_before.items[1]

\* C7 (as claimed): a save_to_history call that found a stored log it cannot
\* use (unparseable text, or JSON that is no list) has, when it is over, raised
\* nothing and left the log holding exactly the one new entry.
C7_CorruptLogTreatedAsEmpty ==
    (/\ pc = "call"
     /\ asked > 0
     /\ ~events.swallowed
     /\ events.file_before.kind \in {"garbage", "object"}) =>
        /\ events.raised = None
        /\ events.entry # None
        /\ history_file = ListFile(<<events.entry[1]>>)

\* C10 (as claimed): the history file changes for a query only after
\* process_query returned its response, it is written once at most, and a
\* query the operator interrupted leaves the file as it was or holding a
\* complete valid log.
C10_NoPartialHistory ==
    /\ history_file # events.file_before => events.returned
    /\ events.writes <= 1
    /\ events.interrupted =>
           \/ history_file = events.file_before
           \/ history_file.kind = "list"

\* C2 (as claimed): when process_query has returned, the backend was not called
\* and the sentinel came back verbatim if the blob equals the sentinel, and the
\* backend was called exactly once for any other blob.
C2_ShortCircuitExactlyOnSentinel ==
    (events.returned /\ events.raised = None) =>
        IF wiki_knowledge =
             "No relevant Arch Wiki pages found. Please search the wiki manually at https://wiki.archlinux.org"
        THEN /\ response = wiki_knowledge
             /\ backend_calls = <<>>
        ELSE Len(backend_calls) = 1

\* a search that yields no result: the request or its JSON parse failed, the
\* reply is shorter than its four elements, or it lists no title (or no URL)
ZeroResults(resp) ==
    \/ resp.kind # "json"
    \/ Len(resp.results) < 4
    \/ resp.results[2] = <<>>
    \/ resp.results[4] = <<>>

\* C3: for every search that yields no result, failed requests and malformed
\* or too-short JSON included, get_wiki_knowledge returns exactly the sentinel
\* string, fetches no page and raises nothing.
C3_NoResultsGivesSentinel ==
    (events.search # None /\ ZeroResults(events.search[1])) =>
        /\ events.raised = None \/ events.raised = Some("save_to_history")
        /\ events.retrieved
        /\ wiki_knowledge =
             "No relevant Arch Wiki pages found. Please search the wiki manually at https://wiki.archlinux.org"
        /\ wiki_pages = <<>>
        /\ fetched = <<>>
        /\ events.fetch = <<>>

\* C3 witness: the search request failed and get_wiki_knowledge has returned
C3_Witness ==
    /\ pc = "check"
    /\ events.search # None
    /\ events.search[1].kind = "raise"
    /\ events.retrieved

\* a well-formed reply: four elements, as many URLs as titles
IsWellFormed(resp) ==
    /\ resp.kind = "json"
    /\ Len(resp.results) = 4
    /\ Len(resp.results[2]) = Len(resp.results[4])

C4_Block(title, url, content) ==
    "### " \o title \o "\n" \o "URL: " \o url \o "\n"
    \o (IF content # None /\ content[1] # ""
        THEN "Content:\n" \o content[1] \o "\n\n"
        ELSE "(Content could not be retrieved - refer to URL)\n\n")

C4_Expected(titles, urls, texts) ==
    LET n == Len(titles)
        m == IF n < 2 THEN n ELSE 2
    IN  "=== ARCH WIKI CONTENT ===\n\n"
        \o Concat([i \in 1..m |-> C4_Block(titles[i], urls[i], texts[i])], 1, m)
        \o (IF n > 2 THEN "Additional relevant pages:\n" ELSE "")
        \o Concat([i \in 3..n |-> "- " \o titles[i] \o ": " \o urls[i] \o "\n"], 3, n)

\* C4: for every well-formed search reply with n >= 1 results, the blob
\* get_wiki_knowledge returns is the header, then one ### block (title, URL,
\* content or placeholder) for each of the first min(n, 2) results in the
\* order of the reply, then (under their heading) one citation line for each
\* result from the third on; exactly the first min(n, 2) titles are fetched,
\* in that order, and no other title ever is.
C4_BlobShape ==
    (/\ events.search # None
     /\ IsWellFormed(events.search[1])
     /\ Len(events.search[1].results[2]) >= 1) =>
        LET titles == events.search[1].results[2]
            urls == events.search[1].results[4]
            n == Len(titles)
            m == IF n < 2 THEN n ELSE 2
        IN  /\ Len(fetched) <= m
            /\ \A i \in 1..Len(fetched) : fetched[i] = titles[i]
            /\ events.retrieved =>
                   /\ Len(fetched) = m
                   /\ Len(contents) = m
                   /\ wiki_knowledge = C4_Expected(titles, urls, contents)

\* C4 witness: a reply with three results, the blob returned
C4_Witness ==
    /\ events.search # None
    /\ IsWellFormed(events.search[1])
    /\ Len(events.search[1].results[2]) >= 3
    /\ events.retrieved
    /\ pc = "check"

C5_Placeholder == "(Content could not be retrieved - refer to URL)\n\n"

\* C5: whatever the outcome of each of the (up to 2) fetches, no exception
\* leaves get_wiki_knowledge, and the blob it returns holds a ### block for
\* each of them: with the placeholder exactly for the pages whose fetch failed
\* or gave empty text, with the fetched text for the others.
C5_FetchFailureIsLocal ==
    /\ events.raised # Some("fetch_wiki_content")
    /\ (events.retrieved /\ wiki_pages # <<>>) =>
           LET m == IF Len(wiki_pages) < 2 THEN Len(wiki_pages) ELSE 2
           IN  /\ Len(events.fetch) = m
               /\ Len(contents) = m
               /\ \A i \in 1..m :
                      LET head == "### " \o wiki_pages[i].title \o "\n"
                                  \o "URL: " \o wiki_pages[i].url \o "\n"
                          failed == \/ events.fetch[i].kind # "html"
                                    \/ contents[i] = None
                                    \/ contents[i] = Some("")
                      IN  /\ events.fetch[i].kind # "html" => contents[i] = None
                          /\ events.fetch[i].kind = "html" => contents[i] # None
                          /\ Contains(wiki_knowledge, head \o C5_Placeholder) <=> failed
                          /\ ~failed =>
                                 Contains(wiki_knowledge,
                                          head \o "Content:\n" \o contents[i][1] \o "\n\n")

\* C5 witness: the first of two fetches raised, the second gave text
C5_Witness ==
    /\ events.retrieved
    /\ Len(events.fetch) = 2
    /\ events.fetch[1].kind = "raise"
    /\ events.fetch[2].kind = "html"
    /\ contents[1] = None
    /\ contents[2] # None
    /\ contents[2] # Some("")

\* C6: when the backend fails (the request raises, or the reply has no
\* readable text), get_ai_response raises nothing and returns the fallback
\* string, which carries the failure detail and the wiki root URL; the backend
\* was asked exactly once.
C6_BackendFailureFallsBack ==
    (events.backend # None /\ events.backend[1].kind # "text") =>
        /\ events.raised # Some("get_ai_response")
        /\ events.returned
        /\ response = "Error getting AI response: " \o events.backend[1].msg
                      \o "\n\nPlease check the Arch Wiki directly at: https://wiki.archlinux.org"
        /\ Contains(response, events.backend[1].msg)
        /\ Contains(response, "https://wiki.archlinux.org")
        /\ Len(backend_calls) = 1

\* C6 witness: the backend raised for a query with a blob of fetched pages
C6_Witness ==
    /\ pc = "print"
    /\ events.backend # None
    /\ events.backend[1].kind = "raise"
    /\ wiki_pages # <<>>
    /\ Len(backend_calls) = 1

\* C8 (as claimed): at every text event the extractor is accumulating exactly
\* when the text lies inside an open element with a content id, and a document
\* in which no content id occurs gives the empty string.
C8_AccumulatesExactlyInsideContainer ==
    /\ last_event.type = "data" =>
           (last_event.accumulating <=> last_event.in_container)
    /\ ~last_event.id_seen => get_text(parser) = ""

\* C9 (as claimed): no fragment of the output lay inside a script, style, nav,
\* footer or header element (at any depth), and none is 3 characters or less.
C9_NoSkippedOrShortText ==
    /\ Len(origin) = Len(parser.text_content)
    /\ \A i \in 1..Len(origin) :
           /\ ~origin[i].in_skip
           /\ Len(parser.text_content[i]) > 3

====
